---- MODULE Spec2Model ----
(***************************************************************************)
(* Model of src/main.py: a Telegram bot that appends one log record per    *)
(* accepted Instagram link to reports.log (handle_reel_url) and a report   *)
(* pipeline (send_daily_report) that reads the log, aggregates it, writes  *)
(* a report file, PUTs it to ntfy and truncates the log on status 200.     *)
(*                                                                         *)
(* Text is modelled as a sequence of symbols.  The symbols " ", "|", ",",  *)
(* "=", "(", ")" and "\n" are the characters themselves; every other       *)
(* symbol is an atom standing for a non-empty run of characters holding    *)
(* none of these (so no separator can arise inside or across atoms):       *)
(* "u" a link that INSTAGRAM_REEL_REGEX matches in full, "UserID",         *)
(* "Username", "URL" the field names, "a", "b", "x" other text, and "ts" a *)
(* timestamp (its one blank is inside it and next to no "|" or ",").       *)
(***************************************************************************)
EXTENDS Integers, Sequences, FiniteSets, TLC

\* ------------------------------------------------------------------ bounds

\* Messages the bot handles before polling stops.
MaxMessages == 2

\* ------------------------------------------------------------ str helpers

\* Python's whitespace, as far as the symbols go (str.strip with no argument).
Whitespace == {" ", "\n"}

\* s[i:].startswith(sep)
StartsWithAt(s, sep, i) ==
  /\ i + Len(sep) - 1 <= Len(s)
  /\ \A k \in 1..Len(sep) : s[i + k - 1] = sep[k]

\* s.find(sep), 1-based; 0 when sep does not occur.
Find(s, sep) ==
  LET hits == {i \in 1..Len(s) : StartsWithAt(s, sep, i)}
  IN  IF hits = {} THEN 0 ELSE CHOOSE i \in hits : \A j \in hits : i <= j

\* sep in s
Contains(s, sep) == Find(s, sep) # 0

\* s.strip()
Strip(s) ==
  LET keep == {i \in 1..Len(s) : s[i] \notin Whitespace}
  IN  IF keep = {} THEN <<>>
      ELSE SubSeq(s, CHOOSE i \in keep : \A j \in keep : i <= j,
                     CHOOSE i \in keep : \A j \in keep : i >= j)

\* s.split(sep, 1): one part when sep does not occur, else two.
SplitOnce(s, sep) ==
  LET i == Find(s, sep)
  IN  IF i = 0 THEN <<s>>
      ELSE <<SubSeq(s, 1, i - 1), SubSeq(s, i + Len(sep), Len(s))>>

\* s.split(sep): every part, left to right.
RECURSIVE SplitAll(_, _)
SplitAll(s, sep) ==
  LET i == Find(s, sep)
  IN  IF i = 0 THEN <<s>>
      ELSE <<SubSeq(s, 1, i - 1)>> \o SplitAll(SubSeq(s, i + Len(sep), Len(s)), sep)

\* f.readlines(): the lines of a file, each keeping its "\n".
RECURSIVE ReadLines(_)
ReadLines(file) ==
  LET i == Find(file, <<"\n">>)
  IN  IF file = <<>> THEN <<>>
      ELSE IF i = 0 THEN <<file>>
      ELSE <<SubSeq(file, 1, i)>> \o ReadLines(SubSeq(file, i + 1, Len(file)))

\* ------------------------------------------------------------ the log line

\* Python's None, and what an f-string prints for it.
None == <<"None">>

\* if v:  (a str that is neither None nor empty)
Truthy(v) == v # None /\ v # <<>>

\* ' | ', the separator the formatter puts after %(asctime)s.
TimestampSep == <<" ", "|", " ">>

\* ', ', the separator between the fields of a message.
FieldSep == <<",", " ">>

\* "UserID=", the marker a counted line holds.
IdentityMarker == <<"UserID", "=">>

\* str(user.id) of a one-digit id.
IdStr(n) == <<ToString(n)>>

\* INSTAGRAM_REEL_REGEX with re.match: the text starts with a link (what
\* follows the link is not looked at).
MatchesReelRegex(text) == Len(text) > 0 /\ text[1] = "u"

\* The record logger.info writes through the file handler's formatter:
\* "<asctime> | UserID=<id>, Username=<name>, URL=<url>" and the terminator.
FormatRecord(id, full_name, user_url) ==
  <<"ts">> \o TimestampSep
    \o <<"UserID", "=">> \o IdStr(id)
    \o FieldSep \o <<"Username", "=">> \o full_name
    \o FieldSep \o <<"URL", "=">> \o user_url
    \o <<"\n">>

\* The dict log_data built from the parts of data: a part holding "=" sets
\* key.strip() to value.strip(); a later part overwrites an earlier one.
RECURSIVE BuildLogData(_, _)
BuildLogData(parts, d) ==
  IF parts = <<>> THEN d
  ELSE LET part == Head(parts)
           kv   == SplitOnce(part, <<"=">>)
       IN  IF Contains(part, <<"=">>)
           THEN BuildLogData(Tail(parts),
                  [k \in DOMAIN d \cup {Strip(kv[1])} |->
                     IF k = Strip(kv[1]) THEN Strip(kv[2]) ELSE d[k]])
           ELSE BuildLogData(Tail(parts), d)

\* log_data.get(key)
Get(d, key) == IF key \in DOMAIN d THEN d[key] ELSE None

\* The empty dict.
EmptyDict == [k \in {} |-> <<>>]

\* ---------------------------------------------------------- the aggregator

\* The counters send_daily_report sets up before its loop.  user_order is the
\* insertion order of the dict interactions_per_user.
EmptyStats ==
  [total_interactions    |-> 0,
   unique_users          |-> {},
   interactions_per_user |-> [k \in {} |-> 0],
   user_order            |-> <<>>,
   user_names            |-> EmptyDict,
   detailed_logs         |-> <<>>]

\* f"{timestamp} | {user_name} ({user_id}) -> {url}"
DetailLine(timestamp, user_name, user_id, url) ==
  timestamp \o TimestampSep \o user_name \o <<" ", "(">> \o user_id
    \o <<")", " ", "->", " ">> \o url

\* The loop body with one slip put in, for the mutants below:
\*   "add-under-name"       unique_users.add(user_id) moved under if user_name
\*   "name-unconditional"   user_names[user_id] = user_name without its test
\*   "detail-dedented"      detailed_logs.append moved out of if user_id
\*   "no-unique-add"        unique_users.add(user_id) left out
ProcessLineBut(st, log, slip) ==
  IF ~Contains(log, IdentityMarker) THEN st
  ELSE
    LET counted == [st EXCEPT !.total_interactions = @ + 1]
        halves  == SplitOnce(Strip(log), TimestampSep)
    IN  IF Len(halves) # 2 THEN counted
        ELSE
          LET timestamp == halves[1]
              log_data  == BuildLogData(SplitAll(halves[2], FieldSep), EmptyDict)
              user_id   == Get(log_data, <<"UserID">>)
              user_name == Get(log_data, <<"Username">>)
              url       == Get(log_data, <<"URL">>)
              ipu       == counted.interactions_per_user
              detail    == DetailLine(timestamp, user_name, user_id, url)
          IN  IF ~Truthy(user_id)
              THEN IF slip = "detail-dedented"
                   THEN [counted EXCEPT !.detailed_logs = Append(@, detail)]
                   ELSE counted
              ELSE
                [counted EXCEPT
                   !.unique_users =
                      IF \/ slip = "no-unique-add"
                         \/ (slip = "add-under-name" /\ ~Truthy(user_name))
                      THEN @ ELSE @ \cup {user_id},
                   !.interactions_per_user =
                      [k \in DOMAIN ipu \cup {user_id} |->
                         IF k = user_id
                         THEN (IF k \in DOMAIN ipu THEN ipu[k] ELSE 0) + 1
                         ELSE ipu[k]],
                   !.user_order =
                      IF user_id \in DOMAIN ipu THEN @ ELSE Append(@, user_id),
                   !.user_names =
                      IF Truthy(user_name) \/ slip = "name-unconditional"
                      THEN [k \in DOMAIN @ \cup {user_id} |->
                              IF k = user_id THEN user_name ELSE @[k]]
                      ELSE @,
                   !.detailed_logs = Append(@, detail)]

\* Mutants of ProcessLine, one slip each.
ProcessLineAddUnderName(st, log) == ProcessLineBut(st, log, "add-under-name")

ProcessLineNameUnconditional(st, log) == ProcessLineBut(st, log, "name-unconditional")

ProcessLineDetailDedented(st, log) == ProcessLineBut(st, log, "detail-dedented")

ProcessLineNoUniqueAdd(st, log) == ProcessLineBut(st, log, "no-unique-add")

\* One pass of the loop body over the line log: the marker test, the count,
\* the split off of the timestamp, the fields, and the per-user updates.
ProcessLine(st, log) ==
  IF ~Contains(log, IdentityMarker) THEN st
  ELSE
    LET counted == [st EXCEPT !.total_interactions = @ + 1]
        halves  == SplitOnce(Strip(log), TimestampSep)
    IN  IF Len(halves) # 2 THEN counted
        ELSE
          LET timestamp == halves[1]
              log_data  == BuildLogData(SplitAll(halves[2], FieldSep), EmptyDict)
              user_id   == Get(log_data, <<"UserID">>)
              user_name == Get(log_data, <<"Username">>)
              url       == Get(log_data, <<"URL">>)
              ipu       == counted.interactions_per_user
          IN  IF ~Truthy(user_id) THEN counted
              ELSE
                [counted EXCEPT
                   !.unique_users = @ \cup {user_id},
                   !.interactions_per_user =
                      [k \in DOMAIN ipu \cup {user_id} |->
                         IF k = user_id
                         THEN (IF k \in DOMAIN ipu THEN ipu[k] ELSE 0) + 1
                         ELSE ipu[k]],
                   !.user_order =
                      IF user_id \in DOMAIN ipu THEN @ ELSE Append(@, user_id),
                   !.user_names =
                      IF Truthy(user_name)
                      THEN [k \in DOMAIN @ \cup {user_id} |->
                              IF k = user_id THEN user_name ELSE @[k]]
                      ELSE @,
                   !.detailed_logs =
                      Append(@, DetailLine(timestamp, user_name, user_id, url))]

\* The report text, by its parts: the two counts, one bullet per user in
\* insertion order (name or 'N/A', id, count) and the detailed log.  The
\* date in the title is left out: the model has one day.
FormatReport(st) ==
  [total    |-> st.total_interactions,
   unique   |-> Cardinality(st.unique_users),
   per_user |-> [i \in 1..Len(st.user_order) |->
                   LET id == st.user_order[i]
                   IN  <<IF id \in DOMAIN st.user_names
                         THEN st.user_names[id] ELSE <<"N/A">>,
                         id, st.interactions_per_user[id]>>],
   detail   |-> st.detailed_logs]

\* The sum of the values of a dict, key by key.
RECURSIVE SumOver(_, _)
SumOver(f, keys) ==
  IF keys = {} THEN 0
  ELSE LET k == CHOOSE x \in keys : TRUE
       IN  f[k] + SumOver(f, keys \ {k})

SumValues(f) == SumOver(f, DOMAIN f)

\* ------------------------------------------------------------------ state

VARIABLES
  phase,       \* where main is: "polling" (in run_polling) or "scheduling"
  running,     \* the process is alive (no exception left main)
  handled,     \* messages handled so far
  lastReply,   \* the reply the last handler sent
  update,      \* the message handle_reel_url handled last
  log,         \* the content of reports.log
  logExists,   \* reports.log exists
  reportFile,  \* the file daily_report_<date>.md
  pc,          \* where send_daily_report is
  log_lines,   \* its local log_lines
  idx,         \* the position of its loop in log_lines
  stats,       \* its counters
  status,      \* response.status_code
  requests,    \* requests the current run has issued
  created,     \* the current run has opened its report file for writing
  outcome,     \* what the run logged last: how it ended
  exc,         \* the exception the run raised, by where it was raised
  logAtStart,  \* the content of reports.log when the run was invoked
  timesDelivered  \* of the lines now in the log: in how many reports that
                  \* were answered with 200 they have been, at most (2: more than once)

vars ==
  <<phase, running, handled, lastReply, update, log, logExists, reportFile, pc,
    log_lines, idx, stats, status, requests, created, outcome, exc, logAtStart,
    timesDelivered>>

\* The locals and the per-run record of send_daily_report.
runVars == <<log_lines, idx, stats, status, requests, created, outcome, exc, logAtStart>>

\* The state of main and of the handlers.
botVars == <<phase, running, handled, lastReply, update>>

\* No response yet.
NoStatus == 0

\* The status that counts as delivered.
OkStatus == 200

\* The statuses the ntfy server may answer with.
Statuses == {200, 201, 500}

\* No report file / a report file holding the given texts.
NoFile == [exists |-> FALSE, text |-> <<>>]

FileWith(text) == [exists |-> TRUE, text |-> text]

\* The messages the chat platform delivers: sender id, sender full_name and
\* text.  A link; a link followed by a second line of text; a link followed
\* by a second line that holds "UserID="; padded text that is no link; and
\* a link from senders whose names hold "=", ", " and ", UserID=".
Messages ==
  { [id |-> 1, full_name |-> <<"a">>, text |-> <<"u">>],
    [id |-> 1, full_name |-> <<"a", "=", "b">>, text |-> <<"u">>],
    [id |-> 2, full_name |-> <<"a", ",", " ", "b">>, text |-> <<"u">>],
    [id |-> 2, full_name |-> <<"a", ",", " ", "UserID", "=", "9">>, text |-> <<"u">>],
    [id |-> 2, full_name |-> <<"b">>, text |-> <<" ", "u", "\n", "x", " ">>],
    [id |-> 2, full_name |-> <<"b">>, text |-> <<"u", "\n", "UserID", "=", "x">>],
    [id |-> 1, full_name |-> <<"a">>, text |-> <<" ", "x">>] }

\* No message handled yet.
NoUpdate == [id |-> 0, full_name |-> <<>>, text |-> <<>>]

\* reports.log exists from the import on: logging.FileHandler(LOG_FILE,
\* mode='a') creates it, and nothing in the program removes it.
\* What reports.log may hold when the process starts (the handler opens it in
\* mode 'a'): nothing, or an earlier line without the marker.
InitLogs == { <<>>, <<"x", "\n">> }

Init ==
  /\ phase = "polling"
  /\ running = TRUE
  /\ handled = 0
  /\ lastReply = "none"
  /\ update = NoUpdate
  /\ log \in InitLogs
  /\ logExists = TRUE
  /\ reportFile = NoFile
  /\ pc = "idle"
  /\ log_lines = <<>>
  /\ idx = 0
  /\ stats = EmptyStats
  /\ status = NoStatus
  /\ requests = 0
  /\ created = FALSE
  /\ outcome = "none"
  /\ exc = "none"
  /\ logAtStart = <<>>
  /\ timesDelivered = 0

\* ------------------------------------------------------------------- main

\* Mutant of PollingActive: the handlers also run while main is in its
\* scheduler loop (polling moved to a thread of its own).
PollingActiveThreaded == running

\* main is inside application.run_polling(), which returns only when the
\* application is stopped: the handlers run here and nowhere else.
PollingActive == running /\ phase = "polling"

\* main is in its while True loop, after run_polling has returned.
SchedulerActive == running /\ phase = "scheduling"

\* run_polling returns (a stop signal).
StopPolling ==
  /\ PollingActive
  /\ phase' = "scheduling"
  /\ UNCHANGED <<running, handled, lastReply, update, log, logExists, reportFile, pc>>
  /\ UNCHANGED runVars
  /\ UNCHANGED timesDelivered

\* ---------------------------------------------------------------- handlers

\* start: the welcome reply.
Start ==
  /\ PollingActive
  /\ lastReply' = "welcome"
  /\ UNCHANGED <<phase, running, handled, update, log, logExists, reportFile, pc>>
  /\ UNCHANGED runVars
  /\ UNCHANGED timesDelivered

\* handle_reel_url: a text that starts with a link is logged and answered
\* with the download link; any other text is answered with the refusal.
HandleReelUrl(m) ==
  /\ PollingActive
  /\ handled < MaxMessages
  /\ handled' = handled + 1
  /\ update' = m
  /\ LET user_url == Strip(m.text)
     IN  IF MatchesReelRegex(user_url)
         THEN /\ log' = log \o FormatRecord(m.id, m.full_name, user_url)
              /\ lastReply' = "download"
         ELSE /\ log' = log
              /\ lastReply' = "invalid"
  /\ UNCHANGED <<phase, running, logExists, reportFile, pc>>
  /\ UNCHANGED runVars
  /\ UNCHANGED timesDelivered

\* ------------------------------------------------------ send_daily_report

\* Mutant of IsSuccess: any 2xx status counts (response.ok).
IsSuccess2xx(st) == st \in 200..299

\* response.status_code == 200
IsSuccess(st) == st = OkStatus

\* The run has returned to its caller.
RunEnded == pc = "idle" /\ outcome # "none"

\* schedule.run_pending() in main's loop: the daily job is due and
\* send_daily_report is called, or nothing is due and the loop sleeps.
RunPending ==
  /\ SchedulerActive
  /\ pc = "idle"
  /\ \/ /\ pc' = "exists"
        /\ log_lines' = <<>>
        /\ idx' = 0
        /\ stats' = EmptyStats
        /\ status' = NoStatus
        /\ requests' = 0
        /\ created' = FALSE
        /\ outcome' = "none"
        /\ exc' = "none"
        /\ logAtStart' = log
        /\ UNCHANGED <<log, logExists, reportFile>>
        /\ UNCHANGED botVars
        /\ UNCHANGED timesDelivered
     \/ UNCHANGED vars

\* if not os.path.exists(LOG_FILE): warn and return.
ReportExists ==
  /\ pc = "exists"
  /\ IF ~logExists
     THEN /\ outcome' = "Skipped"
          /\ pc' = "idle"
     ELSE /\ outcome' = outcome
          /\ pc' = "read"
  /\ UNCHANGED <<log, logExists, reportFile>>
  /\ UNCHANGED <<log_lines, idx, stats, status, requests, created, exc, logAtStart>>
  /\ UNCHANGED botVars
  /\ UNCHANGED timesDelivered

\* with open(LOG_FILE, 'r') as f: log_lines = f.readlines(), or the open or
\* the read raises.
ReportRead ==
  /\ pc = "read"
  /\ \/ /\ log_lines' = ReadLines(log)
        /\ pc' = "check"
        /\ exc' = exc
     \/ /\ log_lines' = log_lines
        /\ pc' = "except"
        /\ exc' = "read"
  /\ UNCHANGED <<log, logExists, reportFile>>
  /\ UNCHANGED <<idx, stats, status, requests, created, outcome, logAtStart>>
  /\ UNCHANGED botVars
  /\ UNCHANGED timesDelivered

\* Mutant of ReportCheck: the test of log_lines is missing.
ReportCheckNoSkip ==
  /\ pc = "check"
  /\ outcome' = outcome
  /\ stats' = EmptyStats
  /\ idx' = 1
  /\ pc' = "loop"
  /\ UNCHANGED <<log, logExists, reportFile>>
  /\ UNCHANGED <<log_lines, status, requests, created, exc, logAtStart>>
  /\ UNCHANGED botVars
  /\ UNCHANGED timesDelivered

\* if not log_lines: log and return; else set up the counters.
ReportCheck ==
  /\ pc = "check"
  /\ IF log_lines = <<>>
     THEN /\ outcome' = "Skipped"
          /\ pc' = "idle"
          /\ UNCHANGED <<stats, idx>>
     ELSE /\ outcome' = outcome
          /\ stats' = EmptyStats
          /\ idx' = 1
          /\ pc' = "loop"
  /\ UNCHANGED <<log, logExists, reportFile>>
  /\ UNCHANGED <<log_lines, status, requests, created, exc, logAtStart>>
  /\ UNCHANGED botVars
  /\ UNCHANGED timesDelivered

\* for log in log_lines: one pass of the body, or the end of the loop.
ReportLoop ==
  /\ pc = "loop"
  /\ IF idx <= Len(log_lines)
     THEN /\ stats' = ProcessLine(stats, log_lines[idx])
          /\ idx' = idx + 1
          /\ pc' = pc
     ELSE /\ pc' = "render"
          /\ UNCHANGED <<stats, idx>>
  /\ UNCHANGED <<log, logExists, reportFile>>
  /\ UNCHANGED <<log_lines, status, requests, created, outcome, exc, logAtStart>>
  /\ UNCHANGED botVars
  /\ UNCHANGED timesDelivered

\* Mutant of ReportRender: the log is cleared as soon as the report is
\* written, before anything is sent.
ReportRenderTruncatesFirst ==
  /\ pc = "render"
  /\ reportFile' = FileWith(<<FormatReport(stats)>>)
  /\ created' = TRUE
  /\ pc' = "send"
  /\ exc' = exc
  /\ log' = <<>>
  /\ UNCHANGED logExists
  /\ UNCHANGED <<log_lines, idx, stats, status, requests, outcome, logAtStart>>
  /\ UNCHANGED botVars
  /\ UNCHANGED timesDelivered

\* The report is built and written to report_filename; or opening the file
\* raises (nothing is written), or the write raises (the file is left empty).
ReportRender ==
  /\ pc = "render"
  /\ \/ /\ reportFile' = FileWith(<<FormatReport(stats)>>)
        /\ created' = TRUE
        /\ pc' = "send"
        /\ exc' = exc
     \/ /\ reportFile' = reportFile
        /\ created' = created
        /\ pc' = "except"
        /\ exc' = "write"
     \/ /\ reportFile' = FileWith(<<>>)
        /\ created' = TRUE
        /\ pc' = "except"
        /\ exc' = "write"
  /\ UNCHANGED <<log, logExists>>
  /\ UNCHANGED <<log_lines, idx, stats, status, requests, outcome, logAtStart>>
  /\ UNCHANGED botVars
  /\ UNCHANGED timesDelivered

\* requests.put of the report file: a response comes back; or opening the
\* file raises before any request; or the request itself raises.
ReportSend ==
  /\ pc = "send"
  /\ \/ \E st \in Statuses :
          /\ status' = st
          /\ requests' = requests + 1
          /\ pc' = "status"
          /\ exc' = exc
          /\ timesDelivered' =
                IF IsSuccess(st) /\ timesDelivered < 2
                THEN timesDelivered + 1 ELSE timesDelivered
     \/ /\ status' = status
        /\ requests' = requests
        /\ pc' = "except"
        /\ exc' = "open"
        /\ timesDelivered' = timesDelivered
     \/ /\ status' = status
        /\ requests' = requests + 1
        /\ pc' = "except"
        /\ exc' = "request"
        /\ timesDelivered' = timesDelivered
  /\ UNCHANGED <<log, logExists, reportFile>>
  /\ UNCHANGED <<log_lines, idx, stats, created, outcome, logAtStart>>
  /\ UNCHANGED botVars

\* Mutant of ReportStatus: after a 200 the function goes straight to the
\* removal of the report file and leaves the log as it is.
ReportStatusSkipsTruncate ==
  /\ pc = "status"
  /\ IF IsSuccess(status)
     THEN /\ outcome' = "Delivered"
          /\ pc' = "remove"
     ELSE /\ outcome' = "DeliveryFailed"
          /\ pc' = "remove"
  /\ UNCHANGED <<log, logExists, reportFile>>
  /\ UNCHANGED <<log_lines, idx, stats, status, requests, created, exc, logAtStart>>
  /\ UNCHANGED botVars
  /\ UNCHANGED timesDelivered

\* if response.status_code == 200: log the success and go on to clear the
\* log; else log the failure.
ReportStatus ==
  /\ pc = "status"
  /\ IF IsSuccess(status)
     THEN /\ outcome' = "Delivered"
          /\ pc' = "commit"
     ELSE /\ outcome' = "DeliveryFailed"
          /\ pc' = "remove"
  /\ UNCHANGED <<log, logExists, reportFile>>
  /\ UNCHANGED <<log_lines, idx, stats, status, requests, created, exc, logAtStart>>
  /\ UNCHANGED botVars
  /\ UNCHANGED timesDelivered

\* Mutant of ReportCommit: the log is opened in mode 'a', so writing ""
\* clears nothing.
ReportCommitAppendMode ==
  /\ pc = "commit"
  /\ pc' = "remove"
  /\ UNCHANGED <<log, logExists, reportFile, exc>>
  /\ UNCHANGED <<log_lines, idx, stats, status, requests, created, outcome, logAtStart>>
  /\ UNCHANGED botVars
  /\ UNCHANGED timesDelivered

\* with open(LOG_FILE, 'w') as f: f.write(""), or the open raises.
ReportCommit ==
  /\ pc = "commit"
  /\ \/ /\ log' = <<>>
        /\ logExists' = TRUE
        /\ pc' = "remove"
        /\ exc' = exc
        /\ timesDelivered' = 0
     \/ /\ log' = log
        /\ logExists' = logExists
        /\ pc' = "except"
        /\ exc' = "truncate"
        /\ timesDelivered' = timesDelivered
  /\ UNCHANGED reportFile
  /\ UNCHANGED <<log_lines, idx, stats, status, requests, created, outcome, logAtStart>>
  /\ UNCHANGED botVars

\* os.remove(report_filename) and the return, or the removal raises.
ReportRemove ==
  /\ pc = "remove"
  /\ \/ /\ reportFile' = NoFile
        /\ pc' = "idle"
        /\ exc' = exc
     \/ /\ reportFile' = reportFile
        /\ pc' = "except"
        /\ exc' = "remove"
  /\ UNCHANGED <<log, logExists>>
  /\ UNCHANGED <<log_lines, idx, stats, status, requests, created, outcome, logAtStart>>
  /\ UNCHANGED botVars
  /\ UNCHANGED timesDelivered

\* Mutant of ReportExcept: the handler does not match the exception, which
\* leaves send_daily_report and ends main's loop.
ReportExceptPropagates ==
  /\ pc = "except"
  /\ pc' = "idle"
  /\ running' = FALSE
  /\ UNCHANGED <<phase, handled, lastReply, update, log, logExists, reportFile>>
  /\ UNCHANGED runVars
  /\ UNCHANGED timesDelivered

\* except Exception as e: log the error; the function returns.
ReportExcept ==
  /\ pc = "except"
  /\ outcome' = "DeliveryFailed"
  /\ pc' = "idle"
  /\ UNCHANGED <<log, logExists, reportFile>>
  /\ UNCHANGED <<log_lines, idx, stats, status, requests, created, exc, logAtStart>>
  /\ UNCHANGED botVars
  /\ UNCHANGED timesDelivered

\* ------------------------------------------------------------ specification

Next ==
  \/ StopPolling
  \/ Start
  \/ \E m \in Messages : HandleReelUrl(m)
  \/ RunPending
  \/ ReportExists
  \/ ReportRead
  \/ ReportCheck
  \/ ReportLoop
  \/ ReportRender
  \/ ReportSend
  \/ ReportStatus
  \/ ReportCommit
  \/ ReportRemove
  \/ ReportExcept

Spec == Init /\ [][Next]_vars

\* main's loop keeps calling schedule.run_pending() once a second and the job
\* comes due every day: a run that can start, and stays able to, does start.
\* Nothing makes run_polling return: that takes a signal from outside.
FairSpec == Spec /\ WF_vars(RunPending)

\* --------------------------------------------- the aggregator on its own

\* Lines a run may read.
MaxLines == 3

\* Lines reports.log may hold: records as the handler writes them (two names
\* for user 1, a blank name, user 2), a record without Username, a record
\* with an empty UserID, a line without the marker, and a line with the
\* marker but no " | ".
SampleLines ==
  { FormatRecord(1, <<"a">>, <<"u">>),
    FormatRecord(1, <<"b">>, <<"u">>),
    FormatRecord(1, <<" ">>, <<"u">>),
    FormatRecord(2, <<"a">>, <<"u">>),
    <<"ts">> \o TimestampSep \o <<"UserID", "=", "1">> \o FieldSep
       \o <<"URL", "=", "u", "\n">>,
    <<"ts">> \o TimestampSep \o <<"UserID", "=">> \o FieldSep
       \o <<"Username", "=", "a">> \o FieldSep \o <<"URL", "=", "u", "\n">>,
    <<"x", "\n">>,
    <<"UserID", "=", "x", "\n">> }

\* The file that holds the given lines.
RECURSIVE Join(_)
Join(lines) == IF lines = <<>> THEN <<>> ELSE Head(lines) \o Join(Tail(lines))

\* A run that has just read its lines and set up its counters (the state
\* ReportCheck leaves), over every log of one to MaxLines sample lines.
AggInit ==
  /\ phase = "scheduling"
  /\ running = TRUE
  /\ handled = 0
  /\ lastReply = "none"
  /\ update = NoUpdate
  /\ log_lines \in UNION {[1..n -> SampleLines] : n \in 1..MaxLines}
  /\ log = Join(log_lines)
  /\ logExists = TRUE
  /\ reportFile = NoFile
  /\ pc = "loop"
  /\ idx = 1
  /\ stats = EmptyStats
  /\ status = NoStatus
  /\ requests = 0
  /\ created = FALSE
  /\ outcome = "none"
  /\ exc = "none"
  /\ logAtStart = log
  /\ timesDelivered = 0

AggNext == ReportLoop

AggSpec == AggInit /\ [][AggNext]_vars

\* ------------------------------------------------------------------ claims

\* A step that loses content of the log: the new content does not start
\* with the old one.
LosesLogContent ==
  ~(Len(log') >= Len(log) /\ SubSeq(log', 1, Len(log)) = log)

\* C1: the log is truncated only after the outbound request of the same run
\* has returned status 200: every step that removes content from the log is
\* taken by a run that has issued its request and holds a 200 response.
C1_TruncateOnlyAfter200 ==
  [][LosesLogContent => (log' = <<>> /\ status = OkStatus /\ requests = 1)]_vars

\* C1 witness: a run has reset a log it had read as non-empty, after a 200.
C1_Witness ==
  pc = "remove" /\ status = OkStatus /\ log = <<>> /\ log_lines # <<>>

\* C2: once the request has returned 200 the next step of the run goes to the
\* truncation without touching the log, the truncation empties the log (or
\* raises and leaves it), and a run that ends as Delivered leaves the log empty.
C2_TruncateRightAfter200 ==
  /\ [][(pc = "status" /\ status = OkStatus) => (pc' = "commit" /\ log' = log)]_vars
  /\ [][pc = "commit" => (log' = <<>> \/ (pc' = "except" /\ log' = log))]_vars
  /\ [](RunEnded /\ outcome = "Delivered" => log = <<>>)

\* C2 witness: a run over a non-empty log has ended as Delivered.
C2_Witness ==
  RunEnded /\ outcome = "Delivered" /\ logAtStart # <<>> /\ log = <<>>

\* C3: a run whose request returned a status other than 200 ends as
\* DeliveryFailed, leaves the log holding exactly the lines it read, and has
\* issued one request only.
C3_Non200KeepsLog ==
  (RunEnded /\ status \notin {NoStatus, OkStatus})
    => /\ outcome = "DeliveryFailed"
       /\ ReadLines(log) = log_lines
       /\ log = logAtStart
       /\ requests = 1

\* C3 witness: a run has ended after a 500 or a 201 with its log kept.
C3_Witness ==
  RunEnded /\ status \in {201, 500} /\ exc = "none" /\ log # <<>>

\* C4 as claimed: a run invoked on an absent or empty log ends as Skipped,
\* with no request, no report file and the log unchanged.
C4_EmptyLogSkipped ==
  (RunEnded /\ (~logExists \/ logAtStart = <<>>))
    => /\ outcome = "Skipped"
       /\ requests = 0
       /\ ~created
       /\ log = logAtStart

\* C4 as amended: a run invoked on an absent or empty log issues no request,
\* creates no report file and leaves the log unchanged; it ends as Skipped
\* unless reading the log raised, and then it ends as failed.
C4_EmptyLogNoEffect ==
  (RunEnded /\ (~logExists \/ logAtStart = <<>>))
    => /\ requests = 0
       /\ ~created
       /\ log = logAtStart
       /\ IF exc = "none"
          THEN outcome = "Skipped"
          ELSE exc = "read" /\ outcome = "DeliveryFailed"

\* C4 witness: a run invoked on an empty log has ended as Skipped.
C4_Witness ==
  RunEnded /\ logAtStart = <<>> /\ outcome = "Skipped" /\ exc = "none"

\* C5: a run that read a non-empty log and counted no interaction ends as
\* Skipped, with no request and the log kept.
C5_NothingAcceptedSkipped ==
  (RunEnded /\ exc = "none" /\ log_lines # <<>> /\ idx > Len(log_lines)
     /\ stats.total_interactions = 0)
    => /\ outcome = "Skipped"
       /\ requests = 0
       /\ log = logAtStart

C7_FailureCaught ==
  /\ [](running)
  /\ [](exc # "none" => (pc = "except" \/ (RunEnded /\ outcome = "DeliveryFailed")))
  /\ [][(pc = "except" \/ exc' # exc)
          => (phase' = phase /\ running' = running /\ handled' = handled)]_vars
  /\ [][pc = "except" => (pc' = "idle" /\ outcome' = "DeliveryFailed")]_vars

\* C7 witness: the outbound request raised and the run has returned.
C7_Witness ==
  RunEnded /\ exc = "request" /\ outcome = "DeliveryFailed" /\ running

\* A step of handle_reel_url, and one that accepted its message.
HandlerStep == handled' = handled + 1

AcceptingStep == HandlerStep /\ lastReply' = "download"

\* C8: the log changes in two ways only: the handling of a matching message
\* appends exactly one line (that of a non-matching one appends none), and a
\* run resets the log to empty after a 200.
C8_LogChangesTwoWays ==
  [][/\ (AcceptingStep
           => /\ ~LosesLogContent
              /\ Len(ReadLines(log')) = Len(ReadLines(log)) + 1)
     /\ (HandlerStep /\ ~AcceptingStep => log' = log)
     /\ (~HandlerStep /\ log' # log => (log' = <<>> /\ status = OkStatus))]_vars

\* A line the loop should skip: no marker, or no two parts around " | ".
Unparseable(line) ==
  \/ ~Contains(line, IdentityMarker)
  \/ Len(SplitOnce(Strip(line), TimestampSep)) # 2

\* C9: a pass of the loop over a line without the marker, or without two
\* parts around the timestamp separator, leaves every counter as it was.
C9_UnparseableLineNeutral ==
  [][(pc = "loop" /\ idx <= Len(log_lines) /\ Unparseable(log_lines[idx]))
       => stats' = stats]_vars

\* C10: when the loop is over, the values of interactions_per_user sum to
\* total_interactions.
C10_PerUserSumsToTotal ==
  pc = "render" => SumValues(stats.interactions_per_user) = stats.total_interactions

\* ------------------------------------------------- claims on the aggregator

\* What the loop body reads off one line: ok when the line holds the marker
\* and splits in two around " | ", and then the timestamp and the three
\* fields as log_data.get returns them.
ParseLine(line) ==
  LET halves == SplitOnce(Strip(line), TimestampSep)
      fields == BuildLogData(SplitAll(halves[2], FieldSep), EmptyDict)
  IN  IF Contains(line, IdentityMarker) /\ Len(halves) = 2
      THEN [ok |-> TRUE, timestamp |-> halves[1],
            user_id   |-> Get(fields, <<"UserID">>),
            user_name |-> Get(fields, <<"Username">>),
            url       |-> Get(fields, <<"URL">>)]
      ELSE [ok |-> FALSE, timestamp |-> <<>>,
            user_id |-> None, user_name |-> None, url |-> None]

\* An accepted record: the line parses and its UserID is not empty.
Accepted(line) == ParseLine(line).ok /\ Truthy(ParseLine(line).user_id)

\* The lines the loop has been over, and whether the counters are live.
Done == SubSeq(log_lines, 1, idx - 1)

Aggregating == pc \in {"loop", "render"}

\* The positions in lines of the accepted records of id, and of those among
\* them that carry a non-empty username.
RecordsOf(lines, id) ==
  {i \in 1..Len(lines) : Accepted(lines[i]) /\ ParseLine(lines[i]).user_id = id}

NamedRecordsOf(lines, id) ==
  {i \in RecordsOf(lines, id) : Truthy(ParseLine(lines[i]).user_name)}

AcceptedIds(lines) ==
  {ParseLine(lines[i]).user_id : i \in {j \in 1..Len(lines) : Accepted(lines[j])}}

Last(S) == CHOOSE i \in S : \A j \in S : j <= i

\* C11: a pass of the loop over a well-formed line with a non-empty UserID
\* raises total_interactions by exactly 1 and leaves that UserID in
\* unique_users.
C11_AcceptedLineCounted ==
  [][(pc = "loop" /\ idx <= Len(log_lines) /\ Accepted(log_lines[idx]))
       => /\ stats'.total_interactions = stats.total_interactions + 1
          /\ ParseLine(log_lines[idx]).user_id \in stats'.unique_users]_vars

\* C11 witness: the loop has just been over an accepted record whose
\* username is empty, after another line.
C11_Witness ==
  /\ pc = "loop"
  /\ idx > 2
  /\ Accepted(log_lines[idx - 1])
  /\ ~Truthy(ParseLine(log_lines[idx - 1]).user_name)
  /\ stats.total_interactions >= 1

\* C12: after any prefix of the lines, user_names[id] is the username of the
\* last record of id that carries a non-empty one; an id none of whose
\* records carries one has no entry, and no other key has one.
C12_LastNonEmptyName ==
  Aggregating =>
    /\ DOMAIN stats.user_names \subseteq AcceptedIds(Done)
    /\ \A id \in AcceptedIds(Done) :
         LET named == NamedRecordsOf(Done, id)
         IN  IF named = {}
             THEN id \notin DOMAIN stats.user_names
             ELSE /\ id \in DOMAIN stats.user_names
                  /\ stats.user_names[id] = ParseLine(Done[Last(named)]).user_name

\* C12 witness: a record with an empty or absent username has come after a
\* named record of the same id, which itself came after one with another name.
C12_Witness ==
  /\ pc = "loop"
  /\ idx = 4
  /\ \E id \in AcceptedIds(Done) :
       /\ RecordsOf(Done, id) = {1, 2, 3}
       /\ NamedRecordsOf(Done, id) = {1, 2}
       /\ ParseLine(Done[1]).user_name # ParseLine(Done[2]).user_name
       /\ stats.user_names[id] = ParseLine(Done[2]).user_name

\* The detail lines of the accepted records of lines, in order.
RECURSIVE ExpectedDetails(_)
ExpectedDetails(lines) ==
  IF lines = <<>> THEN <<>>
  ELSE LET r == ParseLine(Head(lines))
       IN  (IF Accepted(Head(lines))
            THEN <<DetailLine(r.timestamp, r.user_name, r.user_id, r.url)>>
            ELSE <<>>) \o ExpectedDetails(Tail(lines))

\* C13: after any prefix of the lines, detailed_logs holds one entry for each
\* accepted record, none for any other line, in the order of the lines.
C13_DetailPerAcceptedRecord ==
  Aggregating => stats.detailed_logs = ExpectedDetails(Done)

\* C13 witness: two records of different users were entered around a line
\* that was not.
C13_Witness ==
  /\ pc = "render"
  /\ Len(log_lines) = 3
  /\ Accepted(log_lines[1]) /\ ~Accepted(log_lines[2]) /\ Accepted(log_lines[3])
  /\ ParseLine(log_lines[1]).user_id # ParseLine(log_lines[3]).user_id
  /\ Len(stats.detailed_logs) = 2

\* C18: after any prefix of the lines, unique_users is the key set of
\* interactions_per_user, every count is at least 1, detailed_logs is as long
\* as the counts sum to, and every key of user_names is in unique_users.
C18_CountersConsistent ==
  Aggregating =>
    /\ stats.unique_users = DOMAIN stats.interactions_per_user
    /\ \A id \in DOMAIN stats.interactions_per_user :
         stats.interactions_per_user[id] >= 1
    /\ Len(stats.detailed_logs) = SumValues(stats.interactions_per_user)
    /\ DOMAIN stats.user_names \subseteq stats.unique_users

\* C18 witness: two users, one of them with two records and no name.
C18_Witness ==
  /\ pc = "loop"
  /\ Cardinality(stats.unique_users) = 2
  /\ \E id \in stats.unique_users :
       stats.interactions_per_user[id] = 2 /\ id \notin DOMAIN stats.user_names

\* ------------------------------------------------------ claims on main

\* C14: the timer fires while messages are being served: if message handling
\* never stops, a run of the report pipeline still starts at some point.
C14_TimerFiresWhilePolling ==
  [](PollingActive) => <>(pc # "idle")

\* ------------------------------------------- claims on the log round trip

\* C15: the record the handler has just written for (id, full_name, url) is
\* at the end of the log, is one line, and parses in the pipeline to the same
\* id, full_name and url.
C15_WriteParseRoundTrip ==
  (PollingActive /\ lastReply = "download") =>
    LET user_url == Strip(update.text)
        record   == FormatRecord(update.id, update.full_name, user_url)
        lines    == ReadLines(record)
        parsed   == ParseLine(lines[1])
    IN  /\ Len(log) >= Len(record)
        /\ SubSeq(log, Len(log) - Len(record) + 1, Len(log)) = record
        /\ Len(lines) = 1
        /\ parsed.ok
        /\ parsed.user_id = IdStr(update.id)
        /\ parsed.user_name = update.full_name
        /\ parsed.url = user_url

\* C16 as stated: over any sequence of runs, the lines in the log have been
\* in at most one report that was answered with 200, and after a run whose
\* delivery was not answered with 200 the lines it read are still in the log
\* when the next run starts.
C16_AtMostOnce ==
  /\ timesDelivered <= 1
  /\ (RunEnded /\ status # OkStatus /\ log_lines # <<>>) =>
       ReadLines(log) = log_lines

\* C16, amended: a run that was answered with 200 and whose truncation did
\* not raise leaves no line behind to be reported again; every other run,
\* the one whose truncation raised after a 200 included, leaves the log as
\* it found it, so its lines go into the next report.
C16_AtMostOnceUnlessTruncateRaises ==
  RunEnded =>
    IF status = OkStatus /\ exc # "truncate"
    THEN log = <<>> /\ timesDelivered = 0
    ELSE log = logAtStart /\ (log_lines # <<>> => ReadLines(log) = log_lines)

\* A run has found nothing to report after an earlier run delivered its
\* report: the earlier report is still on disk (its removal raised), the
\* log it was built from is empty.
C16_Witness ==
  /\ RunEnded
  /\ outcome = "Skipped"
  /\ logAtStart = <<>>
  /\ handled >= 1
  /\ reportFile.exists
  /\ reportFile.text # <<>>
  /\ timesDelivered = 0

\* C17: the report file a run has written is not on disk once the run has
\* ended, whether the delivery succeeded, failed, or an exception was raised
\* after the file was created.
C17_NoReportFileLeft ==
  (RunEnded /\ created) => ~reportFile.exists

====
